---- MODULE Spec2Model ----
(***************************************************************************)
(* Model of the two run loops of the Binance trading bot:                  *)
(*   bot.py          run_bot()            (prog = "bot")                   *)
(*   trading_bot.py  BasicBot.run(ui_mode) (prog = "trading_bot")          *)
(* One step of the model is one blocking call or one branch of the loop,   *)
(* so that an operator interrupt (KeyboardInterrupt) can arrive between    *)
(* any two of them, as it can in the Python process.                       *)
(* Prices, thresholds and quantities are integers (ticks); the code only   *)
(* compares them with < and >.                                             *)
(***************************************************************************)
EXTENDS Integers, Sequences, FiniteSets, TLC

VARIABLES
    prog,         \* which entry point runs: "bot" or "trading_bot"
    ui_mode,      \* BasicBot.run(ui_mode); always FALSE for bot.py
    symbol,       \* config['SYMBOL'] / self.symbol
    buy_price,    \* BUY_THRESHOLD / self.buy_price
    sell_price,   \* SELL_THRESHOLD / self.sell_price
    quantity,     \* TRADE_QUANTITY / self.quantity
    testnet,      \* client.testnet (network mode: test or live)
    in_position,  \* in_position / self.in_position
    pc,           \* position of the thread of control
    price,        \* last fetched ticker price (0 before the first fetch)
    user_input,   \* last operator command in interactive mode ("" if none)
    side,         \* kind of the order call of this iteration ("NONE" if none)
    gw_ok,        \* did the in-flight gateway order call return normally
    ret,          \* return value of the order helper: "none" (not returned),
                  \* "True", "False", "None" (the stop-limit / OCO helpers)
    exc,          \* exception being handled, or that left the run function
    interrupted,  \* the operator interrupt has been delivered
    log,          \* log records emitted since the latest price fetch began
    orders,       \* gateway order calls made since the latest price fetch began
    nbuy,         \* market buys the gateway has executed so far in this run
    nsell,        \* market sells the gateway has executed so far in this run
    cfg_pc,       \* start-up: "init", "loaded" (settings file read), "done"
                  \* (configuration resolved), "raised" (a lookup failed)
    env_exists,   \* is there a .env settings file
    env,          \* the KEY=value lines of the settings file, as strings
    cli,          \* the command-line flags given, as typed (strings)
    loaded,       \* the dict returned by load_config() / load_env()
    effective     \* the values the bot is constructed with, per key resolved

vars == <<prog, ui_mode, symbol, buy_price, sell_price, quantity, in_position,
          pc, price, user_input, side, gw_ok, ret, exc, interrupted, log, orders,
          testnet, nbuy, nsell, cfg_pc, env_exists, env, cli, loaded, effective>>

\* the start-up (configuration) part of the state, and the run-loop part
loader == <<cfg_pc, env_exists, env, cli, loaded, effective>>

runstate == <<in_position, pc, price, user_input, side, gw_ok, ret, exc,
              interrupted, log, orders, nbuy, nsell>>

config == <<prog, ui_mode, symbol, buy_price, sell_price, quantity, testnet>>

\* ---------------------------------------------------------------- bounds
MaxPrice == 4
MaxQty == 2
\* the run is followed until this many market buys (and sells) have executed
MaxTrades == 2

Prices == 1..MaxPrice
Thresholds == 1..MaxPrice
Quantities == 1..MaxQty
Symbols == {"BTCUSDT", "ETHUSDT"}

\* an empty dict ({} in the code)
EmptyDict == [k \in {} |-> ""]

\* ------------------------------------------------------------ log records
Rec(level, msg, pos) == [level |-> level, msg |-> msg, pos |-> pos]

PosStr(b) == IF b THEN "YES" ELSE "NO"

\* logging.warning(f"ALERT: {message}")
send_alert(msg) == Rec("WARNING", msg, "-")

NumLevel(l, level) == Cardinality({i \in 1..Len(l) : l[i].level = level})

NumMsg(l, msg) == Cardinality({i \in 1..Len(l) : l[i].msg = msg})

\* variant: the order is sent with the built-in symbol, not the configured one
OrderDefaultSymbol(kind, sym, qty, result) ==
    [kind |-> kind, symbol |-> "BTCUSDT", quantity |-> qty, result |-> result]

\* an order call as the gateway sees it
Order(kind, sym, qty, result) ==
    [kind |-> kind, symbol |-> sym, quantity |-> qty, result |-> result]

SetLastResult(os, result) ==
    [os EXCEPT ![Len(os)] = [@ EXCEPT !.result = result]]

\* ------------------------------------------------------------------- Init
Init ==
    /\ prog \in {"bot", "trading_bot"}
    /\ ui_mode \in BOOLEAN
    /\ (prog = "bot" => ~ui_mode)
    /\ symbol \in Symbols
    /\ buy_price \in Thresholds
    /\ sell_price \in Thresholds
    /\ quantity \in Quantities
    /\ testnet \in BOOLEAN
    /\ nbuy = 0
    /\ nsell = 0
    /\ cfg_pc = "done"
    /\ env_exists = FALSE
    /\ env = EmptyDict
    /\ cli = EmptyDict
    /\ loaded = EmptyDict
    /\ effective = EmptyDict
    /\ in_position = FALSE
    /\ pc = "start"
    /\ price = 0
    /\ user_input = ""
    /\ side = "NONE"
    /\ gw_ok = FALSE
    /\ ret = "none"
    /\ exc = "none"
    /\ interrupted = FALSE
    /\ log = <<>>
    /\ orders = <<>>

\* ------------------------------------------------- the code's conditions
\* variant: the buy comparison written with <= instead of <
BuyConditionInclusive(pos, p, buy) == (~pos) /\ p <= buy

\* bot.py:102 / trading_bot.py:131   if not in_position and price < buy_price
BuyCondition(pos, p, buy) == (~pos) /\ p < buy

\* bot.py:107 / trading_bot.py:136   elif in_position and price > sell_price
SellCondition(pos, p, sell) == pos /\ p > sell

\* variant: the second branch written with `if` instead of `elif`
AfterBuyBranchIf == "check_sell"

\* the buy branch and the sell branch are joined by elif: when the buy branch
\* was taken, control goes to time.sleep without testing the sell condition
AfterBuyBranch == "sleep"

\* variant: the flag is set without testing the helper's return value
NewPositionUnchecked(pos, kind, r) == (kind = "BUY")

\* if execute_trade(is_buy): in_position = is_buy   (only a True return flips)
NewPosition(pos, kind, r) == IF r = "True" THEN (kind = "BUY") ELSE pos

\* variant: every Exception raised in the loop body ends the loop
HandlerPcAlwaysFatal(p) == "fatal"

\* where an Exception raised inside the loop body is handled:
\* bot.py has one try around the whole loop (handler at 116-118 ends run_bot),
\* trading_bot.py has a try inside the loop (handler at 146-147)
HandlerPc(p) == IF p = "bot" THEN "fatal" ELSE "loop_err"

\* positions from which a KeyboardInterrupt is caught by the run function's
\* own `except KeyboardInterrupt`: the body of the try statement, not the
\* start-up lines before it and not the `except Exception` handlers
InterruptCaughtAt == {"fetch", "prompt", "ask_prices", "check_buy", "check_sell",
                      "order", "in_helper", "after_trade", "sleep"}

\* positions at which the `while True` loop has been entered and not left
LoopPcs == InterruptCaughtAt \cup {"loop_err"}

\* records written by the order helpers once the gateway call is over
HelperLog(p, kind, ok) ==
    IF kind \in {"BUY", "SELL"}
    THEN IF ok THEN <<Rec("INFO", "order executed", "-")>>
         ELSE IF p = "bot"
              THEN <<Rec("ERROR", "Trade failed", "-"), send_alert("TRADE FAILED")>>
              ELSE <<Rec("ERROR", "Trade failed", "-")>>
    ELSE IF ok THEN <<Rec("INFO", "order placed", "-")>>
         ELSE <<Rec("ERROR", "Failed to place order", "-")>>

\* variant: the except branch of the market-order helper also returns True
HelperRetAlwaysTrue(kind, ok) == IF kind \in {"BUY", "SELL"} THEN "True" ELSE "None"

\* value the order helper returns
HelperRet(kind, ok) ==
    IF kind \in {"BUY", "SELL"} THEN (IF ok THEN "True" ELSE "False") ELSE "None"

\* records written by the run loop after the helper returned True
TradeLog(p, kind) ==
    IF p = "bot"
    THEN <<send_alert(IF kind = "BUY" THEN "Bought" ELSE "Sold")>>
    ELSE <<Rec("INFO", IF kind = "BUY" THEN "BOUGHT" ELSE "SOLD", "-")>>

\* records written before the loop starts, given the balance call's outcome
StartLog(p, ok) ==
    IF p = "bot"
    THEN IF ok
         THEN <<Rec("INFO", "Starting", "-"), Rec("INFO", "Mode", "-"),
                Rec("INFO", "Balance", "-")>>
         ELSE <<Rec("INFO", "Starting", "-"), Rec("INFO", "Mode", "-")>>
    ELSE IF ok
         THEN <<Rec("INFO", "Started", "-"), Rec("INFO", "Config", "-"),
                Rec("INFO", "Balance", "-")>>
         ELSE <<Rec("INFO", "Started", "-"), Rec("INFO", "Config", "-"),
                Rec("ERROR", "Failed to fetch account balance", "-"),
                Rec("INFO", "Balance", "-")>>

\* does a failure of the start-up balance call leave the run function
BalanceFailurePropagates(p) == p = "bot"

\* variant: the 'b' and 's' branches call the helper with the other side
CommandKindSwapped(cmd) ==
    CASE cmd = "b" -> "SELL"
      [] cmd = "s" -> "BUY"
      [] cmd = "oco" -> "OCO"
      [] cmd = "stop" -> "STOP"
      [] OTHER -> "NONE"

\* interactive mode: the order helper each command calls
\* (trading_bot.py:114-126); other input calls none
CommandKind(cmd) ==
    CASE cmd = "b" -> "BUY"
      [] cmd = "s" -> "SELL"
      [] cmd = "oco" -> "OCO"
      [] cmd = "stop" -> "STOP"
      [] OTHER -> "NONE"

\* variant: the final branch is `else: break`, so unknown input ends the loop
CommandPcElseBreak(cmd) ==
    CASE cmd \in {"b", "s"} -> "order"
      [] cmd \in {"oco", "stop"} -> "ask_prices"
      [] OTHER -> "done"

\* interactive mode: where control goes once the command is read: into the
\* market-order helper, to the price prompts, out of the loop (break), or
\* to the next iteration (continue)
CommandPc(cmd) ==
    CASE cmd \in {"b", "s"} -> "order"
      [] cmd \in {"oco", "stop"} -> "ask_prices"
      [] cmd = "q" -> "done"
      [] OTHER -> "fetch"

\* variant: interactive mode assigns the flag as automatic mode does
DiscardResultApplied(pos, kind, r) == IF r = "True" THEN (kind = "BUY") ELSE pos

\* interactive mode: self.execute_trade(...) is called as a statement, its
\* return value is dropped and the flag is not assigned
DiscardResult(pos, kind, r) == pos

\* ---------------------------------------------------------------- actions
\* start-up: the log lines and the one balance fetch before the loop
Start ==
    /\ pc = "start"
    /\ \E ok \in BOOLEAN :
          /\ log' = StartLog(prog, ok)
          /\ IF (~ok) /\ BalanceFailurePropagates(prog)
             THEN pc' = "raised" /\ exc' = "ExchangeError"
             ELSE pc' = "fetch" /\ exc' = exc
    /\ UNCHANGED <<nbuy, nsell>>
    /\ UNCHANGED <<loader, config, in_position, price, user_input, side, gw_ok, ret,
                   interrupted, orders>>

\* price = float(client.get_symbol_ticker(symbol)['price']) and the
\* price/position record that follows it
FetchOk ==
    /\ pc = "fetch"
    /\ \E p \in Prices :
          /\ price' = p
          /\ log' = <<Rec("INFO", "Price", PosStr(in_position))>>
    /\ pc' = IF ui_mode THEN "prompt" ELSE "check_buy"
    /\ orders' = <<>>
    /\ side' = "NONE"
    /\ ret' = "none"
    /\ user_input' = ""
    /\ UNCHANGED <<nbuy, nsell>>
    /\ UNCHANGED <<loader, config, in_position, gw_ok, exc, interrupted>>

\* the ticker call raises (network / exchange error), or its answer cannot
\* be parsed (KeyError / ValueError in float(...['price']))
FetchFail ==
    /\ pc = "fetch"
    /\ \E e \in {"ExchangeError", "ValueError"} : exc' = e
    /\ pc' = HandlerPc(prog)
    /\ log' = <<>>
    /\ orders' = <<>>
    /\ side' = "NONE"
    /\ ret' = "none"
    /\ user_input' = ""
    /\ UNCHANGED <<nbuy, nsell>>
    /\ UNCHANGED <<loader, config, in_position, price, gw_ok, interrupted>>

\* automatic mode, first branch
CheckBuy ==
    /\ pc = "check_buy"
    /\ IF BuyCondition(in_position, price, buy_price)
       THEN /\ pc' = "order"
            /\ side' = "BUY"
            /\ orders' = Append(orders, Order("BUY", symbol, quantity, "pending"))
       ELSE /\ pc' = "check_sell"
            /\ UNCHANGED <<side, orders>>
    /\ UNCHANGED <<nbuy, nsell>>
    /\ UNCHANGED <<loader, config, in_position, price, user_input, gw_ok, ret, exc,
                   interrupted, log>>

\* automatic mode, second branch
CheckSell ==
    /\ pc = "check_sell"
    /\ IF SellCondition(in_position, price, sell_price)
       THEN /\ pc' = "order"
            /\ side' = "SELL"
            /\ orders' = Append(orders, Order("SELL", symbol, quantity, "pending"))
       ELSE /\ pc' = "sleep"
            /\ UNCHANGED <<side, orders>>
    /\ UNCHANGED <<nbuy, nsell>>
    /\ UNCHANGED <<loader, config, in_position, price, user_input, gw_ok, ret, exc,
                   interrupted, log>>

\* the gateway order call returns an order, or raises
GatewayCall ==
    /\ pc = "order"
    /\ \E ok \in BOOLEAN :
          /\ (ok /\ side = "BUY") => nbuy < MaxTrades
          /\ (ok /\ side = "SELL") => nsell < MaxTrades
          /\ gw_ok' = ok
          /\ orders' = SetLastResult(orders, IF ok THEN "ok" ELSE "failed")
          /\ nbuy' = IF ok /\ side = "BUY" THEN nbuy + 1 ELSE nbuy
          /\ nsell' = IF ok /\ side = "SELL" THEN nsell + 1 ELSE nsell
    /\ pc' = "in_helper"
    /\ UNCHANGED <<loader, config, in_position, price, user_input, side, ret, exc,
                   interrupted, log>>

\* rest of the order helper: log the order and return True, or the
\* `except Exception` handler: log the failure and return False
HelperReturn ==
    /\ pc = "in_helper"
    /\ log' = log \o HelperLog(prog, side, gw_ok)
    /\ ret' = HelperRet(side, gw_ok)
    /\ pc' = "after_trade"
    /\ UNCHANGED <<nbuy, nsell>>
    /\ UNCHANGED <<loader, config, in_position, price, user_input, side, gw_ok, exc,
                   interrupted, orders>>

\* the run loop uses the helper's result
AfterTrade ==
    /\ pc = "after_trade"
    /\ IF ui_mode
       THEN /\ pc' = "fetch"            \* result discarded, `continue`
            /\ in_position' = DiscardResult(in_position, side, ret)
            /\ log' = log
       ELSE /\ in_position' = NewPosition(in_position, side, ret)
            /\ log' = IF ret = "True" THEN log \o TradeLog(prog, side) ELSE log
            /\ pc' = IF side = "BUY" THEN AfterBuyBranch ELSE "sleep"
    /\ UNCHANGED <<nbuy, nsell>>
    /\ UNCHANGED <<loader, config, price, user_input, side, gw_ok, ret, exc,
                   interrupted, orders>>

\* time.sleep(3)
Sleep ==
    /\ pc = "sleep"
    /\ pc' = "fetch"
    /\ UNCHANGED <<nbuy, nsell>>
    /\ UNCHANGED <<loader, config, in_position, price, user_input, side, gw_ok, ret,
                   exc, interrupted, log, orders>>

\* interactive mode: input(...).strip().lower()
Prompt ==
    /\ pc = "prompt"
    /\ \E cmd \in {"b", "s", "oco", "stop", "q", "x"} :
          /\ user_input' = cmd
          /\ pc' = CommandPc(cmd)
          /\ side' = CommandKind(cmd)
          /\ orders' = IF CommandPc(cmd) = "order"
                       THEN Append(orders, Order(CommandKind(cmd), symbol, quantity,
                                                 "pending"))
                       ELSE orders
    /\ UNCHANGED <<nbuy, nsell>>
    /\ UNCHANGED <<loader, config, in_position, price, gw_ok, ret, exc, interrupted, log>>

\* interactive mode: input() itself raises (end of input)
PromptFail ==
    /\ pc = "prompt"
    /\ exc' = "EOFError"
    /\ pc' = HandlerPc(prog)
    /\ UNCHANGED <<nbuy, nsell>>
    /\ UNCHANGED <<loader, config, in_position, price, user_input, side, gw_ok, ret,
                   interrupted, log, orders>>

\* interactive mode: the float(input(...)) lines of 'oco' and 'stop'
AskPrices ==
    /\ pc = "ask_prices"
    /\ \E valid \in BOOLEAN :
          IF valid
          THEN /\ pc' = "order"
               /\ orders' = Append(orders, Order(side, symbol, quantity, "pending"))
               /\ exc' = exc
          ELSE /\ pc' = HandlerPc(prog)
               /\ exc' = "ValueError"
               /\ orders' = orders
    /\ UNCHANGED <<nbuy, nsell>>
    /\ UNCHANGED <<loader, config, in_position, price, user_input, side, gw_ok, ret,
                   interrupted, log>>

\* trading_bot.py:146-147  except Exception: logging.error(...); next iteration
LoopError ==
    /\ pc = "loop_err"
    /\ log' = Append(log, Rec("ERROR", "Error in main loop", "-"))
    /\ exc' = "none"
    /\ pc' = "fetch"
    /\ UNCHANGED <<nbuy, nsell>>
    /\ UNCHANGED <<loader, config, in_position, price, user_input, side, gw_ok, ret,
                   interrupted, orders>>

\* bot.py:116-118  except Exception: logging.critical(...); send_alert(...)
Fatal ==
    /\ pc = "fatal"
    /\ log' = log \o <<Rec("CRITICAL", "Fatal error", "-"), send_alert("BOT CRASHED")>>
    /\ exc' = "none"
    /\ pc' = "done"
    /\ UNCHANGED <<nbuy, nsell>>
    /\ UNCHANGED <<loader, config, in_position, price, user_input, side, gw_ok, ret,
                   interrupted, orders>>

\* the operator interrupt: KeyboardInterrupt is raised at the current position.
\* No `except Exception` catches it; `except KeyboardInterrupt` of the run
\* function catches it only when it is raised inside the try body.
Interrupt ==
    /\ pc \notin {"done", "raised"}
    /\ interrupted' = TRUE
    /\ IF pc \in InterruptCaughtAt
       THEN /\ log' = Append(log, Rec("INFO", "Bot stopped by user", "-"))
            /\ pc' = "done"
            /\ exc' = exc
       ELSE /\ log' = log
            /\ pc' = "raised"
            /\ exc' = "KeyboardInterrupt"
    /\ UNCHANGED <<nbuy, nsell>>
    /\ UNCHANGED <<loader, config, in_position, price, user_input, side, gw_ok, ret, orders>>

Next ==
    \/ Start
    \/ FetchOk
    \/ FetchFail
    \/ CheckBuy
    \/ CheckSell
    \/ GatewayCall
    \/ HelperReturn
    \/ AfterTrade
    \/ Sleep
    \/ Prompt
    \/ PromptFail
    \/ AskPrices
    \/ LoopError
    \/ Fatal
    \/ Interrupt

Spec == Init /\ [][Next]_vars

\* the steps of the program's own thread: everything but the arrival of the
\* operator interrupt
Progress ==
    \/ Start
    \/ FetchOk
    \/ FetchFail
    \/ CheckBuy
    \/ CheckSell
    \/ GatewayCall
    \/ HelperReturn
    \/ AfterTrade
    \/ Sleep
    \/ Prompt
    \/ PromptFail
    \/ AskPrices
    \/ LoopError
    \/ Fatal

\* the thread keeps running: its calls return or raise, the sleep ends.
\* Which outcome a call has is not constrained.
FairSpec == Spec /\ WF_vars(Progress)

TypeOK ==
    /\ prog \in {"bot", "trading_bot"}
    /\ ui_mode \in BOOLEAN
    /\ in_position \in BOOLEAN
    /\ pc \in {"start", "fetch", "prompt", "ask_prices", "check_buy", "check_sell",
               "order", "in_helper", "after_trade", "sleep", "loop_err", "fatal",
               "done", "raised"}
    /\ price \in 0..MaxPrice
    /\ side \in {"NONE", "BUY", "SELL", "OCO", "STOP"}
    /\ ret \in {"none", "True", "False", "None"}
    /\ exc \in {"none", "ExchangeError", "ValueError", "EOFError", "KeyboardInterrupt"}
    /\ interrupted \in BOOLEAN
    /\ Len(orders) <= 2
    /\ testnet \in BOOLEAN
    /\ nbuy \in 0..MaxTrades
    /\ nsell \in 0..MaxTrades

\* ------------------------------------------------ start-up configuration
\* Numbers are held in thousandths, so that 0.001 is 1 and 60000 is 60000000.
Keys == {"BINANCE_API_KEY", "BINANCE_API_SECRET", "USE_TESTNET", "SYMBOL",
         "BUY_THRESHOLD", "SELL_THRESHOLD", "TRADE_QUANTITY"}

FloatKeys == {"BUY_THRESHOLD", "SELL_THRESHOLD", "TRADE_QUANTITY"}

\* float(text) for the texts that occur
ParseFloat(text) ==
    CASE text = "60000" -> 60000000
      [] text = "68000" -> 68000000
      [] text = "0.001" -> 1
      [] text = "50000" -> 50000000
      [] text = "58000" -> 58000000
      [] text = "0.002" -> 2
      [] text = "55000" -> 55000000
      [] text = "66000" -> 66000000
      [] text = "0.005" -> 5

\* text.lower() for the texts that occur
Lower(text) ==
    CASE text \in {"True", "TRUE", "true"} -> "true"
      [] text \in {"False", "false"} -> "false"

\* dict.get(key, default)
Get(d, k, default) == IF k \in DOMAIN d THEN d[k] ELSE default

\* spellings of the USE_TESTNET value a settings file may hold
TestnetTexts == {"True", "TRUE", "False"}

\* the value a settings file holds for a key other than USE_TESTNET
FileText(k) ==
    CASE k = "BINANCE_API_KEY" -> "file_key"
      [] k = "BINANCE_API_SECRET" -> "file_secret"
      [] k = "SYMBOL" -> "ETHUSDT"
      [] k = "BUY_THRESHOLD" -> "50000"
      [] k = "SELL_THRESHOLD" -> "58000"
      [] k = "TRADE_QUANTITY" -> "0.002"

\* the value typed after a command-line flag (--testnet takes none)
CliText(k) ==
    CASE k = "BINANCE_API_KEY" -> "cli_key"
      [] k = "BINANCE_API_SECRET" -> "cli_secret"
      [] k = "USE_TESTNET" -> ""
      [] k = "SYMBOL" -> "SOLUSDT"
      [] k = "BUY_THRESHOLD" -> "55000"
      [] k = "SELL_THRESHOLD" -> "66000"
      [] k = "TRADE_QUANTITY" -> "0.005"

\* bot.py:21-29  the dict used when there is no .env file
DefaultConfig ==
    [k \in Keys |->
        CASE k = "BINANCE_API_KEY" -> "your_testnet_key"
          [] k = "BINANCE_API_SECRET" -> "your_testnet_secret"
          [] k = "USE_TESTNET" -> "True"
          [] k = "SYMBOL" -> "BTCUSDT"
          [] k = "BUY_THRESHOLD" -> "60000"
          [] k = "SELL_THRESHOLD" -> "68000"
          [] k = "TRADE_QUANTITY" -> "0.001"]

\* trading_bot.py:160-166  the second argument of each env.get(...)
ArgDefaultText(k) ==
    CASE k = "BINANCE_API_KEY" -> ""
      [] k = "BINANCE_API_SECRET" -> ""
      [] k = "USE_TESTNET" -> "True"
      [] k = "SYMBOL" -> "BTCUSDT"
      [] k = "BUY_THRESHOLD" -> "60000"
      [] k = "SELL_THRESHOLD" -> "68000"
      [] k = "TRADE_QUANTITY" -> "0.001"

\* bot.py load_config(): the file's lines, or the default dict when the file
\* is missing
load_config(exists, file) == IF exists THEN file ELSE DefaultConfig

\* trading_bot.py load_env(): the file's lines, or {} when the file is missing
load_env(exists, file) == IF exists THEN file ELSE EmptyDict

\* bot.py: keys whose lookup succeeds; config[...] raises KeyError for a key
\* the dict does not hold, only USE_TESTNET is read with .get
BotResolvable(d) == {k \in Keys : k = "USE_TESTNET" \/ k \in DOMAIN d}

\* bot.py:38-40, 87-90  the value read for a key
BotValue(d, k) ==
    CASE k = "USE_TESTNET" -> (Lower(Get(d, k, "True")) = "true")
      [] k \in FloatKeys -> ParseFloat(d[k])
      [] OTHER -> d[k]

\* trading_bot.py:160-166  the default= of each argument
ArgDefault(d, k) ==
    CASE k = "USE_TESTNET" -> (Lower(Get(d, k, ArgDefaultText(k))) = "true")
      [] k \in FloatKeys -> ParseFloat(Get(d, k, ArgDefaultText(k)))
      [] OTHER -> Get(d, k, ArgDefaultText(k))

\* trading_bot.py:169  parse_args(): the flag's value when the flag is given
\* (type=float for the numbers, store_true for --testnet), else the default
ArgValue(d, c, k) ==
    IF k \in DOMAIN c
    THEN CASE k = "USE_TESTNET" -> TRUE
           [] k \in FloatKeys -> ParseFloat(c[k])
           [] OTHER -> c[k]
    ELSE ArgDefault(d, k)

\* the process starts: a settings file with any subset of the keys, or none;
\* any subset of the flags for trading_bot.py (bot.py reads no flags)
InitConfig ==
    /\ prog \in {"bot", "trading_bot"}
    /\ ui_mode = FALSE
    /\ symbol = "BTCUSDT"
    /\ buy_price = 1
    /\ sell_price = 1
    /\ quantity = 1
    /\ testnet = TRUE
    /\ nbuy = 0
    /\ nsell = 0
    /\ in_position = FALSE
    /\ pc = "start"
    /\ price = 0
    /\ user_input = ""
    /\ side = "NONE"
    /\ gw_ok = FALSE
    /\ ret = "none"
    /\ exc = "none"
    /\ interrupted = FALSE
    /\ log = <<>>
    /\ orders = <<>>
    /\ cfg_pc = "init"
    /\ env_exists \in BOOLEAN
    /\ \E S \in SUBSET Keys : \E tn \in TestnetTexts :
          env = IF env_exists
                THEN [k \in S |-> IF k = "USE_TESTNET" THEN tn ELSE FileText(k)]
                ELSE EmptyDict
    /\ \E C \in SUBSET Keys :
          /\ prog = "bot" => C = {}
          /\ cli = [k \in C |-> CliText(k)]
    /\ loaded = EmptyDict
    /\ effective = EmptyDict

\* bot.py:32  config = load_config()
LoadConfig ==
    /\ cfg_pc = "init"
    /\ prog = "bot"
    /\ loaded' = load_config(env_exists, env)
    /\ cfg_pc' = "loaded"
    /\ UNCHANGED <<config, runstate, env_exists, env, cli, effective>>

\* trading_bot.py:157  env = load_env()
LoadEnv ==
    /\ cfg_pc = "init"
    /\ prog = "trading_bot"
    /\ loaded' = load_env(env_exists, env)
    /\ cfg_pc' = "loaded"
    /\ UNCHANGED <<config, runstate, env_exists, env, cli, effective>>

\* bot.py:37-41 and 87-90: the lookups in the dict; a missing key raises
ReadConfig ==
    /\ cfg_pc = "loaded"
    /\ prog = "bot"
    /\ effective' = [k \in BotResolvable(loaded) |-> BotValue(loaded, k)]
    /\ cfg_pc' = IF BotResolvable(loaded) = Keys THEN "done" ELSE "raised"
    /\ UNCHANGED <<config, runstate, env_exists, env, cli, loaded>>

\* trading_bot.py:159-179: the parser is built and the bot constructed
ParseArgs ==
    /\ cfg_pc = "loaded"
    /\ prog = "trading_bot"
    /\ effective' = [k \in Keys |-> ArgValue(loaded, cli, k)]
    /\ cfg_pc' = "done"
    /\ UNCHANGED <<config, runstate, env_exists, env, cli, loaded>>

NextConfig ==
    \/ LoadConfig
    \/ LoadEnv
    \/ ReadConfig
    \/ ParseArgs

SpecConfig == InitConfig /\ [][NextConfig]_vars

\* ------------------------------------------------------------- properties
LastOrder == orders[Len(orders)]

C2_FlagFlipsOnlyAfterSuccess ==
    /\ [](pc = "start" => ~in_position)
    /\ [][in_position' # in_position =>
            /\ pc = "after_trade"
            /\ ret = "True"
            /\ orders # <<>>
            /\ LastOrder.result = "ok"
            /\ LastOrder.kind = (IF in_position' THEN "BUY" ELSE "SELL")]_vars

\* the flag went back to false after a successful sell
C2_Witness ==
    /\ ~in_position
    /\ pc = "sleep"
    /\ Len(orders) = 1
    /\ orders[1].kind = "SELL"
    /\ orders[1].result = "ok"

\* C3 as stated: after a market order failed at the gateway the flag is
\* unchanged, the helper returns without an exception, and the loop goes on
\* to the sleep (and from there to the next price fetch).
C3_FailedOrderThenSleep ==
    [][(pc = "after_trade" /\ ret = "False" /\ ~interrupted') =>
          (in_position' = in_position /\ exc' = "none" /\ pc' = "sleep")]_vars

\* C3 amended: after a market order failed at the gateway the flag equals the
\* flag at the start of the iteration, the helper returns False with no
\* exception pending, and the loop does not terminate: in automatic mode it
\* goes on to the sleep and then the next price fetch, in interactive mode it
\* goes straight to the next price fetch.
C3_FailedOrderLoopContinues ==
    /\ []((pc = "after_trade" /\ ret = "False") =>
             (exc = "none" /\ in_position = (log[1].pos = "YES")))
    /\ [][(pc = "in_helper" /\ side \in {"BUY", "SELL"} /\ (~gw_ok) /\ ~interrupted') =>
             (pc' = "after_trade" /\ ret' = "False" /\ exc' = "none"
              /\ in_position' = in_position)]_vars
    /\ [][(pc = "after_trade" /\ ret = "False" /\ ~interrupted') =>
             (in_position' = in_position /\ exc' = "none"
              /\ pc' = (IF ui_mode THEN "fetch" ELSE "sleep"))]_vars
    /\ [][(pc = "sleep" /\ ~interrupted') => (pc' = "fetch" /\ exc' = "none")]_vars

\* interactive mode: a failed market buy, and the loop is back at the fetch
C3_Witness ==
    /\ ui_mode
    /\ pc = "fetch"
    /\ ret = "False"
    /\ Len(orders) = 1
    /\ orders[1].kind = "BUY"
    /\ orders[1].result = "failed"
    /\ ~in_position

\* C4: when the price fetch raises a network/exchange error, no order is
\* submitted, the flag is unchanged, an error record is emitted, and the loop
\* goes on to the next fetch by way of the polling sleep.
C4_FetchErrorThenSleep ==
    [][(pc \in {"fatal", "loop_err"} /\ exc = "ExchangeError" /\ ~interrupted') =>
          /\ pc' = "sleep"
          /\ NumLevel(log', "ERROR") >= 1
          /\ orders' = <<>>
          /\ in_position' = in_position]_vars

\* C5: in automatic mode at most one order is submitted between one price
\* fetch and the next.
C5_AtMostOneOrderPerIteration ==
    (~ui_mode) => Len(orders) <= 1

\* a buy succeeded under buy >= sell at a price above the sell threshold, so
\* the flipped flag would satisfy the sell condition; the iteration ends here
C5_Witness ==
    /\ ~ui_mode
    /\ pc = "sleep"
    /\ in_position
    /\ price > sell_price
    /\ Len(orders) = 1
    /\ orders[1].kind = "BUY"
    /\ orders[1].result = "ok"

\* C6: an unexpected error in an iteration (ticker answer that cannot be
\* parsed, failure while reading operator input) is logged at critical
\* severity, an alert is emitted, and the loop terminates.
C6_UnexpectedErrorIsFatal ==
    [][(pc \in {"fatal", "loop_err"} /\ exc \in {"ValueError", "EOFError"}
        /\ ~interrupted') =>
          /\ pc' = "done"
          /\ NumLevel(log', "CRITICAL") = 1
          /\ NumMsg(log', "BOT CRASHED") = 1]_vars

\* C7: no failure of an exchange call leaves the run entry point.
C7_ExchangeFailureNeverEscapes ==
    ~(pc = "raised" /\ exc = "ExchangeError")

\* C8: an interrupt that arrives while the loop is running ends the loop with
\* exactly one 'stopped by user' record and no new warning or critical
\* record, and nothing runs afterwards.
C8_InterruptStopsCleanly ==
    /\ [][(interrupted' /\ (~interrupted) /\ pc \in LoopPcs) =>
            /\ pc' = "done"
            /\ NumMsg(log', "Bot stopped by user") = 1
            /\ NumLevel(log', "WARNING") = NumLevel(log, "WARNING")
            /\ NumLevel(log', "CRITICAL") = NumLevel(log, "CRITICAL")]_vars
    /\ [](interrupted => pc \in {"done", "raised"})

\* C9: the loop never stops in a state where an order call returned success
\* and the position flag was not updated to match it.
C9_NoStopWithUnappliedOrder ==
    (pc \in {"done", "raised"} /\ (~ui_mode) /\ orders # <<>>
       /\ LastOrder.result = "ok")
    => in_position = (LastOrder.kind = "BUY")

\* alertable events since the latest price fetch began: market orders that
\* executed or failed, and a crash
AlertableEvents ==
    Cardinality({i \in 1..Len(orders) :
                    orders[i].kind \in {"BUY", "SELL"}
                    /\ orders[i].result \in {"ok", "failed"}})
    + (IF NumLevel(log, "CRITICAL") > 0 THEN 1 ELSE 0)

\* C10: when an iteration has ended (at the sleep, or after a crash) the
\* number of warning-level alert records it emitted equals its number of
\* alertable events.
C10_OneAlertPerEvent ==
    (pc = "sleep" \/ (pc = "done" /\ ~interrupted))
    => NumLevel(log, "WARNING") = AlertableEvents

\* C11: in an automatic-mode iteration the price/position record comes after
\* the flag update, so when the iteration reaches the sleep its one price
\* record shows the current flag; and every price fetch other than the first
\* is entered from the sleep.
C11_RecordAfterUpdateSleepBetweenFetches ==
    /\ []((~ui_mode /\ pc = "sleep") =>
            /\ NumMsg(log, "Price") = 1
            /\ \A i \in 1..Len(log) :
                  log[i].msg = "Price" => log[i].pos = PosStr(in_position))
    /\ [][((~ui_mode) /\ pc' = "fetch" /\ pc # "fetch") => pc \in {"start", "sleep"}]_vars

\* C12 as stated: in interactive mode, when the iteration of a command is
\* over, exactly one gateway order call of the matching kind has been made.
C12_ExactlyOneCallPerCommand ==
    (ui_mode /\ pc = "fetch" /\ user_input \in {"b", "s", "oco", "stop"}) =>
       /\ Len(orders) = 1
       /\ (user_input = "b" => orders[1].kind = "BUY")
       /\ (user_input = "s" => orders[1].kind = "SELL")
       /\ (user_input = "oco" => orders[1].kind = "OCO")
       /\ (user_input = "stop" => orders[1].kind = "STOP")

\* C12 amended: in interactive mode an iteration makes at most one gateway
\* order call, of the kind matching the command; 'b' and 's' make exactly one,
\* 'stop' and 'oco' make exactly one when the prices entered parse and none
\* when they do not, any other input makes none; nothing is retried and the
\* threshold branches are never entered.
C12_OneCallPerCompletedCommand ==
    ui_mode =>
       /\ Len(orders) <= 1
       /\ pc \notin {"check_buy", "check_sell", "sleep"}
       /\ (orders # <<>> =>
             \/ (user_input = "b" /\ orders[1].kind = "BUY")
             \/ (user_input = "s" /\ orders[1].kind = "SELL")
             \/ (user_input = "oco" /\ orders[1].kind = "OCO")
             \/ (user_input = "stop" /\ orders[1].kind = "STOP"))
       /\ ((user_input \in {"b", "s"}
            /\ pc \in {"order", "in_helper", "after_trade", "fetch"})
              => Len(orders) = 1)
       /\ ((user_input \in {"oco", "stop"} /\ pc \in {"order", "in_helper", "after_trade"})
              => Len(orders) = 1)
       /\ ((user_input \in {"oco", "stop"} /\ pc = "fetch")
              => Len(orders) = (IF NumMsg(log, "Error in main loop") = 0 THEN 1 ELSE 0))
       /\ (user_input \notin {"b", "s", "oco", "stop"} => orders = <<>>)

\* a stop-limit order was submitted once, failed, and the loop is back at the
\* fetch without a second call
C12_Witness ==
    /\ ui_mode
    /\ pc = "fetch"
    /\ user_input = "stop"
    /\ Len(orders) = 1
    /\ orders[1].kind = "STOP"
    /\ orders[1].result = "failed"

\* C13 as stated: in interactive mode the loop is terminated only after 'q'.
C13_OnlyQuitTerminates ==
    (ui_mode /\ pc = "done") => user_input = "q"

\* C13 amended: in interactive mode the loop is terminated only after 'q' or
\* by the operator interrupt; the step that reads 'q' makes no gateway call,
\* and nothing runs once the loop has terminated.
C13_OnlyQuitOrInterruptTerminates ==
    /\ []((ui_mode /\ pc = "done") => (user_input = "q" \/ interrupted))
    /\ [][(ui_mode /\ user_input' = "q" /\ user_input # "q") =>
             (pc' = "done" /\ orders' = orders /\ orders = <<>>)]_vars
    /\ [][ui_mode => pc \notin {"done", "raised"}]_vars

\* the operator quit after a market buy had executed earlier in the run
C13_Witness ==
    /\ ui_mode
    /\ pc = "done"
    /\ user_input = "q"
    /\ ~interrupted
    /\ nbuy >= 1

\* C14: no step changes the configuration, and every order submitted carries
\* the configured symbol and quantity.
C14_ConfigImmutableOrdersCarryIt ==
    /\ [][config' = config]_vars
    /\ [](\A i \in 1..Len(orders) :
             orders[i].symbol = symbol /\ orders[i].quantity = quantity)

\* an executed order under a configuration other than the built-in one
C14_Witness ==
    /\ orders # <<>>
    /\ LastOrder.result = "ok"
    /\ LastOrder.symbol = "ETHUSDT"
    /\ LastOrder.quantity > 1
    /\ symbol = "ETHUSDT"
    /\ ~testnet

\* C16: in automatic mode, whenever the loop is between iterations or has
\* stopped, executed buys minus executed sells is 0 or 1 and is 1 exactly
\* when the position flag is true.
C16_CountsMatchFlag ==
    ((~ui_mode) /\ pc \in {"fetch", "sleep", "done", "raised"}) =>
       /\ nbuy - nsell \in {0, 1}
       /\ ((nbuy - nsell = 1) <=> in_position)

\* C17: in interactive mode the flag is false in every reachable state and
\* every price/position record reports 'NO'.
C17_InteractiveNeverInPosition ==
    ui_mode =>
       /\ ~in_position
       /\ \A i \in 1..Len(log) : log[i].msg = "Price" => log[i].pos = "NO"

\* a price/position record emitted after a market buy has executed
C17_Witness ==
    /\ ui_mode
    /\ nbuy >= 1
    /\ pc = "prompt"
    /\ Len(log) = 1
    /\ log[1].msg = "Price"

\* C19: in interactive mode, 'oco' or 'stop' followed by a price that is not a
\* number submits no order, leaves the flag unchanged, emits one error record,
\* and the loop continues: next price fetch, then a new prompt.
C19_BadPriceSkipsOrder ==
    /\ []((ui_mode /\ user_input \in {"oco", "stop"} /\ exc = "ValueError") =>
             (orders = <<>> /\ pc \notin {"done", "fatal"}))
    /\ []((ui_mode /\ user_input \in {"oco", "stop"} /\ pc = "done") => interrupted)
    /\ [][(ui_mode /\ user_input \in {"oco", "stop"} /\ exc = "ValueError"
           /\ exc' = "none" /\ ~interrupted') =>
             /\ pc' = "fetch"
             /\ orders' = <<>>
             /\ in_position' = in_position
             /\ NumLevel(log', "ERROR") = NumLevel(log, "ERROR") + 1]_vars
    /\ [][(ui_mode /\ pc = "fetch" /\ pc' # "fetch" /\ exc' = "none" /\ ~interrupted')
             => pc' = "prompt"]_vars

\* the error was logged, no order was made, and the loop is at the next fetch
C19_Witness ==
    /\ ui_mode
    /\ pc = "fetch"
    /\ user_input = "oco"
    /\ orders = <<>>
    /\ NumMsg(log, "Error in main loop") = 1
    /\ exc = "none"

\* the value C15 gives a key: the command-line value, else the file's value,
\* else the built-in default
Typed(k, text) ==
    IF k \in FloatKeys THEN ParseFloat(text) ELSE text

C15_Expected(k) ==
    IF k \in DOMAIN cli
    THEN (IF k = "USE_TESTNET" THEN TRUE ELSE Typed(k, cli[k]))
    ELSE IF k \in DOMAIN env
         THEN (IF k = "USE_TESTNET" THEN Lower(env[k]) = "true" ELSE Typed(k, env[k]))
         ELSE CASE k = "USE_TESTNET" -> TRUE
                [] k = "SYMBOL" -> "BTCUSDT"
                [] k = "BUY_THRESHOLD" -> 60000000
                [] k = "SELL_THRESHOLD" -> 68000000
                [] k = "TRADE_QUANTITY" -> 1
                [] OTHER -> effective[k]

\* C15: once start-up is over every key has its effective value - the
\* command-line value if given, else the settings file's value if the file
\* defines the key, else the built-in default - and start-up has not failed.
C15_EffectiveConfigPrecedence ==
    cfg_pc \in {"done", "raised"} =>
       /\ cfg_pc = "done"
       /\ \A k \in Keys : k \in DOMAIN effective /\ effective[k] = C15_Expected(k)

\* no call is failing: no exception is being handled and the latest order
\* call of the iteration did not fail
NoFailureNow ==
    /\ pc \notin {"fatal", "loop_err"}
    /\ (orders = <<>> \/ LastOrder.result # "failed")

\* C18: in automatic mode, if no interrupt occurs, calls fail only finitely
\* often and from some point on the fetched price is below the buy threshold,
\* then the position flag eventually becomes true.
C18_EventuallyInPosition ==
    ((~ui_mode) /\ []~interrupted /\ <>[]NoFailureNow /\ <>[](price < buy_price))
       => <>in_position

====
